---- MODULE Spec2Model ----
(***************************************************************************)
(* The OAuth 2.0 device-code flow of DeviceCodeClient.acquireToken         *)
(* (lib/msal-common/src/client/DeviceCodeClient.ts): the device-code       *)
(* fetch, the caller's callback, and the setInterval-driven polling of     *)
(* the token endpoint, with the clock, the caller's cancel flag, the       *)
(* device-code endpoint and the token endpoint as the environment.         *)
(***************************************************************************)
EXTENDS Integers, FiniteSets, Sequences, TLC

\* ------------------------------------------------------------------ bounds
\* The clock (TimeUtils.nowSeconds()) runs from 0 to MaxTime seconds.
MaxTime == 21
\* The steps before polling begins take at most MaxStartDelay seconds in all.
MaxStartDelay == 1
\* At most MaxPolls token-endpoint POSTs are issued in one flow.
MaxPolls == 4
\* The sample application serves at most MaxRequests HTTP requests.
MaxRequests == 2

\* ------------------------------------------------------- JavaScript values
\* A numeric JavaScript value: a number, undefined (a field the server left
\* out) or NaN (arithmetic on undefined).
Num(n) == [t |-> "number", v |-> n]
UndefinedNum == [t |-> "undefined", v |-> 0]
NaN == [t |-> "NaN", v |-> 0]
\* A string-valued field the server left out.
Undefined == "undefined"

\* a + b and a * b of JavaScript: NaN unless both are numbers.
JsPlus(a, b) ==
    IF a.t = "number" /\ b.t = "number" THEN Num(a.v + b.v) ELSE NaN
JsTimes(a, b) ==
    IF a.t = "number" /\ b.t = "number" THEN Num(a.v * b.v) ELSE NaN
\* a > b of JavaScript: false when either side is NaN.
JsGreater(a, b) == a.t = "number" /\ b.t = "number" /\ a.v > b.v

\* ------------------------------------------------- device-code endpoint
\* The <<interval, expires_in>> pairs (seconds) the server may answer with.
Timings == {<<1, 2>>, <<2, 1>>, <<5, 16>>}

\* A well-formed ServerDeviceCodeResponse body.
ValidBody(i, e) ==
    [user_code |-> "user-code", device_code |-> "device-code",
     verification_uri |-> "uri", expires_in |-> Num(e), interval |-> Num(i),
     message |-> "message", error |-> Undefined]

\* The body of an error reply (non-success status): none of the six fields.
ErrorBody ==
    [user_code |-> Undefined, device_code |-> Undefined,
     verification_uri |-> Undefined, expires_in |-> UndefinedNum,
     interval |-> UndefinedNum, message |-> Undefined,
     error |-> "invalid_client"]

\* Well-formed bodies with one required field left out.
MalformedBodies ==
    {[ValidBody(1, 2) EXCEPT ![f] = Undefined] :
        f \in {"user_code", "device_code", "verification_uri", "message"}}
    \cup {[ValidBody(1, 2) EXCEPT !.expires_in = UndefinedNum],
          [ValidBody(1, 2) EXCEPT !.interval = UndefinedNum]}

\* What networkClient.sendGetRequestAsync can settle with: a NetworkResponse
\* (status, body), a response without a body, or a transport failure.
DeviceCodeReplies ==
    {[kind |-> "response", status |-> 200, body |-> ValidBody(t[1], t[2])] :
        t \in Timings}
    \cup {[kind |-> "response", status |-> 200, body |-> b] :
            b \in MalformedBodies}
    \cup {[kind |-> "response", status |-> 400, body |-> ErrorBody],
          [kind |-> "nobody", status |-> 200, body |-> ErrorBody],
          [kind |-> "throw", status |-> 0, body |-> ErrorBody]}

\* The server's contract (spec 4.2, 6): a success status and all six fields.
WellFormedReply(r) ==
    /\ r.kind = "response"
    /\ r.status = 200
    /\ r.body.user_code # Undefined
    /\ r.body.device_code # Undefined
    /\ r.body.verification_uri # Undefined
    /\ r.body.message # Undefined
    /\ r.body.expires_in.t = "number"
    /\ r.body.interval.t = "number"

\* The DeviceCodeResponse built from a reply's body, field by field, with
\* no check of the status or of the fields' presence.
DeviceCodeResponseOf(body) ==
    [userCode |-> body.user_code, deviceCode |-> body.device_code,
     verificationUri |-> body.verification_uri, expiresIn |-> body.expires_in,
     interval |-> body.interval, message |-> body.message]

NoDeviceCodeResponse == DeviceCodeResponseOf(ErrorBody)

\* --------------------------------------------------------- token endpoint
AUTHORIZATION_PENDING == "authorization_pending"

\* A token-endpoint response body: absent, an error marker, or a token payload.
NoBody == [defined |-> FALSE, error |-> Undefined, access_token |-> Undefined]
PendingBody ==
    [defined |-> TRUE, error |-> AUTHORIZATION_PENDING, access_token |-> Undefined]
DeclinedBody ==
    [defined |-> TRUE, error |-> "authorization_declined", access_token |-> Undefined]
TokenBody == [defined |-> TRUE, error |-> Undefined, access_token |-> "token"]

\* What executePostToTokenEndpoint can settle with.
PollResponses ==
    {[kind |-> "response", body |-> b] :
        b \in {PendingBody, DeclinedBody, TokenBody, NoBody}}
    \cup {[kind |-> "throw", body |-> NoBody]}

\* The name of a token-endpoint reply, as the server (or the transport) sent it.
ResponseName(r) ==
    IF r.kind = "throw" THEN "poll-throw"
    ELSE IF ~r.body.defined THEN "poll-nobody"
    ELSE IF r.body.error = AUTHORIZATION_PENDING THEN "poll-pending"
    ELSE IF r.body.error # Undefined THEN "poll-error"
    ELSE "poll-token"

\* Mutant: the pending marker is compared with the wrong error code.
IsAuthorizationPendingWrongCode(body) ==
    body.defined /\ body.error = "authorization_declined"

\* response.body && response.body.error == Constants.AUTHORIZATION_PENDING
IsAuthorizationPending(body) ==
    body.defined /\ body.error = AUTHORIZATION_PENDING

\* ------------------------------------------------------------- promises
PendingPromise == [state |-> "pending", error |-> "none", body |-> NoBody]
Resolved(body) == [state |-> "resolved", error |-> "none", body |-> body]
Rejected(err) == [state |-> "rejected", error |-> err, body |-> NoBody]

\* Mutant: a later resolve / reject replaces the promise's outcome.
SettleLastWins(p, outcome) == outcome

\* resolve(...) / reject(...) on a promise: only the first call settles it.
Settle(p, outcome) == IF p.state = "pending" THEN outcome ELSE p

\* JSON.stringify(response): a string holding the body's fields, and
\* undefined (not a string) for an undefined body.
JSONstringify(body) ==
    IF body.defined THEN [type |-> "string", of |-> body]
    ELSE [type |-> "undefined", of |-> NoBody]

NoJson == [type |-> "none", of |-> NoBody]
PendingResult == [state |-> "pending", error |-> "none", json |-> NoJson]
Threw(err) == [state |-> "threw", error |-> err, json |-> NoJson]

\* acquireToken's continuation after `await acquireTokenWithDeviceCode(...)`:
\* a resolved promise is returned stringified, a rejection rethrown.
AcquireTokenResult(p) ==
    CASE p.state = "pending" -> PendingResult
      [] p.state = "resolved" ->
            [state |-> "returned", error |-> "none", json |-> JSONstringify(p.body)]
      [] p.state = "rejected" -> Threw(p.error)

\* --------------------------------------------------------- polling engine
\* The inputs of the token request that do not come from the server:
\* request.scopes, config.authOptions.clientId and GrantType.DEVICE_CODE_GRANT.
RequestScopes == {"user.read"}
ClientId == "client-id"
DEVICE_CODE_GRANT == "device_code"

\* createTokenRequestBody(request, deviceCodeResponse): the scopes, the client
\* id, the grant type and the device code, as the parameters of one query string.
CreateTokenRequestBody(scopes, response) ==
    [scope |-> scopes, client_id |-> ClientId, grant_type |-> DEVICE_CODE_GRANT,
     device_code |-> response.deviceCode]

NoRequestBody ==
    [scope |-> {}, client_id |-> Undefined, grant_type |-> Undefined,
     device_code |-> Undefined]

MilliPerSecond == 1000

\* TimeUtils.nowSeconds() + deviceCodeResponse.expiresIn
DeviceCodeExpirationTime(t, expiresIn) == JsPlus(Num(t), expiresIn)

\* Mutant: the interval is handed to setInterval in seconds, unscaled.
PollingIntervalUnscaled(interval) == interval

\* deviceCodeResponse.interval * 1000
PollingIntervalMilli(interval) == JsTimes(interval, Num(MilliPerSecond))

\* The delay setInterval uses: a delay that is not a number >= 1 becomes 1 ms.
TimerDelay(ms) == IF ms.t = "number" /\ ms.v >= 1 THEN ms.v ELSE 1

\* Mutant: the callback also runs at once, without waiting for the delay.
TimerDueAtOnce(t, started, ms) == TRUE

\* Whether the interval timer may fire, `started` being the clock reading when
\* it was armed (or last fired): the whole seconds of its delay have elapsed.
TimerDue(t, started, ms) == t - started >= TimerDelay(ms) \div MilliPerSecond

\* Mutant: the cancel flag is looked at only once the device code expired.
TickBranchCancelAfterPost(cancelFlag, t, expiration) ==
    IF JsGreater(Num(t), expiration)
    THEN (IF cancelFlag THEN "cancelled" ELSE "expired")
    ELSE "post"

\* Mutant: the expiry check compares against the expiry in milliseconds.
TickBranchExpiryInMillis(cancelFlag, t, expiration) ==
    IF cancelFlag THEN "cancelled"
    ELSE IF JsGreater(Num(t), JsTimes(expiration, Num(MilliPerSecond))) THEN "expired"
    ELSE "post"

\* Mutant: the expiry check is left out of the interval callback.
TickBranchNoExpiry(cancelFlag, t, expiration) ==
    IF cancelFlag THEN "cancelled" ELSE "post"

\* The branch one tick of the interval callback takes.
TickBranch(cancelFlag, t, expiration) ==
    IF cancelFlag THEN "cancelled"
    ELSE IF JsGreater(Num(t), expiration) THEN "expired"
    ELSE "post"

\* ------------------------------------------------------------------ state
VARIABLES
    now,                      \* TimeUtils.nowSeconds(), whole seconds
    cancel,                   \* request.cancel
    pc,                       \* where acquireToken stands
    deviceCodeResponse,       \* the DeviceCodeResponse of the flow
    callbackCalls,            \* invocations of request.deviceCodeCallback
    issuanceTime,             \* nowSeconds() when acquireTokenWithDeviceCode ran
    deviceCodeExpirationTime, \* const of acquireTokenWithDeviceCode
    pollingIntervalMilli,     \* const of acquireTokenWithDeviceCode
    requestBody,              \* const of acquireTokenWithDeviceCode
    postedBody,               \* the body of the latest token-endpoint POST
    intervalActive,           \* intervalId is armed (set, not yet cleared)
    timerStart,               \* clock reading when the timer was last armed
    ticks,                    \* evaluations of the interval callback so far
    posts,                    \* token-endpoint POSTs issued so far
    inflight,                 \* POSTs issued and not settled yet
    promise,                  \* the promise acquireTokenWithDeviceCode returns
    result,                   \* what acquireToken's caller has got
    lastEvent                 \* the latest step of the flow

\* The state of the sample application (samples/msal-node-extensions/index.js).
VARIABLES
    platform,                 \* process.platform, once createPersistence read it
    created,                  \* how the backend's create(...) settled
    persistence,              \* the persistence createPersistence resolved with
    cacheLoad,                \* how msalCacheManager.readFromPersistence settled
    startup,                  \* where the start of the application stands
    listening,                \* app.listen was called
    reqs                      \* the HTTP requests, by number

sampleVars ==
    <<platform, created, persistence, cacheLoad, startup, listening, reqs>>

flowVars ==
    <<now, cancel, pc, deviceCodeResponse, callbackCalls, issuanceTime,
      deviceCodeExpirationTime, pollingIntervalMilli, intervalActive,
      timerStart, ticks, posts, inflight, promise, result,
      lastEvent, requestBody, postedBody>>

\* A request no handler has seen yet.
IdleRequest ==
    [route |-> "none", pc |-> "idle", attempts |-> <<>>, acquired |-> "none",
     save |-> "none", logs |-> <<>>]

SampleInit ==
    /\ platform = "unknown"
    /\ created = "none"
    /\ persistence = "none"
    /\ cacheLoad = "none"
    /\ startup = "createPersistence"
    /\ listening = FALSE
    /\ reqs = [r \in 1..MaxRequests |-> IdleRequest]

vars ==
    <<sampleVars, now, cancel, pc, deviceCodeResponse, callbackCalls, issuanceTime,
      deviceCodeExpirationTime, pollingIntervalMilli, intervalActive,
      timerStart, ticks, posts, inflight, promise, result,
      lastEvent, requestBody, postedBody>>

pollVars ==
    <<issuanceTime, deviceCodeExpirationTime, pollingIntervalMilli, intervalActive,
      timerStart, ticks, posts, inflight, promise, requestBody, postedBody>>

Init ==
    /\ now = 0
    /\ cancel = FALSE
    /\ pc = "createAuthority"
    /\ deviceCodeResponse = NoDeviceCodeResponse
    /\ callbackCalls = 0
    /\ issuanceTime = 0
    /\ deviceCodeExpirationTime = NaN
    /\ pollingIntervalMilli = NaN
    /\ requestBody = NoRequestBody
    /\ postedBody = NoRequestBody
    /\ intervalActive = FALSE
    /\ timerStart = 0
    /\ ticks = 0
    /\ posts = 0
    /\ inflight = 0
    /\ promise = PendingPromise
    /\ result = PendingResult
    /\ lastEvent = "init"
    /\ SampleInit

\* ------------------------------------------------------------ environment
\* The wall clock advances by one second.
ClockTick ==
    /\ now < MaxTime
    /\ pc \notin {"polling", "done"} => now < MaxStartDelay
    /\ now' = now + 1
    /\ UNCHANGED <<cancel, pc, deviceCodeResponse, callbackCalls, pollVars,
                   result, lastEvent>>
    /\ UNCHANGED sampleVars

\* The caller sets request.cancel = true.
SetCancel ==
    /\ ~cancel
    /\ cancel' = TRUE
    /\ UNCHANGED <<now, pc, deviceCodeResponse, callbackCalls, pollVars,
                   result, lastEvent>>
    /\ UNCHANGED sampleVars

\* ----------------------------------------------------------- acquireToken
\* this.authority = await this.createAuthority(request.authority)
CreateAuthority(ok) ==
    /\ pc = "createAuthority"
    /\ IF ok
       THEN /\ pc' = "getDeviceCode"
            /\ lastEvent' = "authority"
            /\ UNCHANGED result
       ELSE /\ pc' = "done"
            /\ lastEvent' = "authority-throw"
            /\ result' = Threw("AuthorityError")
    /\ UNCHANGED <<now, cancel, deviceCodeResponse, callbackCalls, pollVars>>
    /\ UNCHANGED sampleVars

\* The device-code GET settles with reply r and getDeviceCode's promise with
\* it: a transport failure is rethrown, a missing body makes the
\* destructuring throw, any other reply becomes the DeviceCodeResponse.
GetDeviceCode(r) ==
    /\ pc = "getDeviceCode"
    /\ CASE r.kind = "throw" ->
              /\ pc' = "done"
              /\ lastEvent' = "deviceCode-throw"
              /\ result' = Threw("NetworkError")
              /\ UNCHANGED deviceCodeResponse
         [] r.kind = "nobody" ->
              /\ pc' = "done"
              /\ lastEvent' = "deviceCode-throw"
              /\ result' = Threw("TypeError")
              /\ UNCHANGED deviceCodeResponse
         [] r.kind = "response" ->
              /\ pc' = "callback"
              /\ lastEvent' =
                    IF WellFormedReply(r) THEN "deviceCode" ELSE "deviceCode-malformed"
              /\ deviceCodeResponse' = DeviceCodeResponseOf(r.body)
              /\ UNCHANGED result
    /\ UNCHANGED <<now, cancel, callbackCalls, pollVars>>
    /\ UNCHANGED sampleVars

\* Mutant: the callback is invoked a second time when it returned.
DeviceCodeCallbackTwice(throws) ==
    /\ pc = "callback"
    /\ callbackCalls' = IF throws THEN callbackCalls + 1 ELSE callbackCalls + 2
    /\ IF throws
       THEN /\ pc' = "done"
            /\ lastEvent' = "callback-throw"
            /\ result' = Threw("CallbackError")
       ELSE /\ pc' = "acquireTokenWithDeviceCode"
            /\ lastEvent' = "callback"
            /\ UNCHANGED result
    /\ UNCHANGED <<now, cancel, deviceCodeResponse, pollVars>>
    /\ UNCHANGED sampleVars

\* Mutant: an exception of the callback is caught and polling goes on.
DeviceCodeCallbackSwallowed(throws) ==
    /\ pc = "callback"
    /\ callbackCalls' = callbackCalls + 1
    /\ pc' = "acquireTokenWithDeviceCode"
    /\ lastEvent' = IF throws THEN "callback-throw" ELSE "callback"
    /\ UNCHANGED <<now, cancel, deviceCodeResponse, pollVars, result>>
    /\ UNCHANGED sampleVars

\* request.deviceCodeCallback(deviceCodeResponse): the caller's callback
\* returns or throws; an exception rejects acquireToken.
DeviceCodeCallback(throws) ==
    /\ pc = "callback"
    /\ callbackCalls' = callbackCalls + 1
    /\ IF throws
       THEN /\ pc' = "done"
            /\ lastEvent' = "callback-throw"
            /\ result' = Threw("CallbackError")
       ELSE /\ pc' = "acquireTokenWithDeviceCode"
            /\ lastEvent' = "callback"
            /\ UNCHANGED result
    /\ UNCHANGED <<now, cancel, deviceCodeResponse, pollVars>>
    /\ UNCHANGED sampleVars

\* acquireTokenWithDeviceCode up to its return: the expiration time and the
\* interval are computed, the promise is created and the timer armed.
AcquireTokenWithDeviceCode ==
    /\ pc = "acquireTokenWithDeviceCode"
    /\ requestBody' = CreateTokenRequestBody(RequestScopes, deviceCodeResponse)
    /\ issuanceTime' = now
    /\ deviceCodeExpirationTime' =
          DeviceCodeExpirationTime(now, deviceCodeResponse.expiresIn)
    /\ pollingIntervalMilli' = PollingIntervalMilli(deviceCodeResponse.interval)
    /\ intervalActive' = TRUE
    /\ timerStart' = now
    /\ pc' = "polling"
    /\ lastEvent' = "polling"
    /\ UNCHANGED <<now, cancel, deviceCodeResponse, callbackCalls, ticks, posts,
                   inflight, promise, result, postedBody>>
    /\ UNCHANGED sampleVars

\* Mutant: the cancelled branch resets request.cancel once it has acted on it.
TickResetsCancel ==
    /\ intervalActive
    /\ TimerDue(now, timerStart, pollingIntervalMilli)
    /\ LET branch == TickBranch(cancel, now, deviceCodeExpirationTime) IN
         /\ branch = "post" => posts < MaxPolls
         /\ ticks' = ticks + 1
         /\ timerStart' = now
         /\ lastEvent' = branch
         /\ CASE branch = "cancelled" ->
                   /\ intervalActive' = FALSE
                   /\ cancel' = FALSE
                   /\ promise' = Settle(promise, Rejected("DeviceCodeCancelledError"))
                   /\ UNCHANGED <<posts, inflight, postedBody>>
              [] branch = "expired" ->
                   /\ intervalActive' = FALSE
                   /\ promise' = Settle(promise, Rejected("DeviceCodeExpiredError"))
                   /\ UNCHANGED <<cancel, posts, inflight, postedBody>>
              [] branch = "post" ->
                   /\ posts' = posts + 1
                   /\ inflight' = inflight + 1
                   /\ postedBody' = requestBody
                   /\ UNCHANGED <<cancel, intervalActive, promise>>
    /\ result' = AcquireTokenResult(promise')
    /\ pc' = IF promise'.state = "pending" THEN pc ELSE "done"
    /\ UNCHANGED <<now, deviceCodeResponse, callbackCalls, issuanceTime,
                   deviceCodeExpirationTime, pollingIntervalMilli, requestBody>>
    /\ UNCHANGED sampleVars

\* Mutant: the expiry branch rejects without clearing the timer.
TickKeepsTimerOnExpiry ==
    /\ intervalActive
    /\ TimerDue(now, timerStart, pollingIntervalMilli)
    /\ LET branch == TickBranch(cancel, now, deviceCodeExpirationTime) IN
         /\ branch = "post" => posts < MaxPolls
         /\ ticks' = ticks + 1
         /\ timerStart' = now
         /\ lastEvent' = branch
         /\ CASE branch = "cancelled" ->
                   /\ intervalActive' = FALSE
                   /\ promise' = Settle(promise, Rejected("DeviceCodeCancelledError"))
                   /\ UNCHANGED <<posts, inflight, postedBody>>
              [] branch = "expired" ->
                   /\ promise' = Settle(promise, Rejected("DeviceCodeExpiredError"))
                   /\ UNCHANGED <<intervalActive, posts, inflight, postedBody>>
              [] branch = "post" ->
                   /\ posts' = posts + 1
                   /\ inflight' = inflight + 1
                   /\ postedBody' = requestBody
                   /\ UNCHANGED <<intervalActive, promise>>
    /\ result' = AcquireTokenResult(promise')
    /\ pc' = IF promise'.state = "pending" THEN pc ELSE "done"
    /\ UNCHANGED <<now, cancel, deviceCodeResponse, callbackCalls, issuanceTime,
                   deviceCodeExpirationTime, pollingIntervalMilli, requestBody>>
    /\ UNCHANGED sampleVars

\* One firing of the interval callback, up to its first await: the cancel
\* check, the expiry check, or the POST to the token endpoint.
Tick ==
    /\ intervalActive
    /\ TimerDue(now, timerStart, pollingIntervalMilli)
    /\ LET branch == TickBranch(cancel, now, deviceCodeExpirationTime) IN
         /\ branch = "post" => posts < MaxPolls
         /\ ticks' = ticks + 1
         /\ timerStart' = now
         /\ lastEvent' = branch
         /\ CASE branch = "cancelled" ->
                   /\ intervalActive' = FALSE
                   /\ promise' = Settle(promise, Rejected("DeviceCodeCancelledError"))
                   /\ UNCHANGED <<posts, inflight, postedBody>>
              [] branch = "expired" ->
                   /\ intervalActive' = FALSE
                   /\ promise' = Settle(promise, Rejected("DeviceCodeExpiredError"))
                   /\ UNCHANGED <<posts, inflight, postedBody>>
              [] branch = "post" ->
                   /\ posts' = posts + 1
                   /\ inflight' = inflight + 1
                   /\ postedBody' = requestBody
                   /\ UNCHANGED <<intervalActive, promise>>
    /\ result' = AcquireTokenResult(promise')
    /\ pc' = IF promise'.state = "pending" THEN pc ELSE "done"
    /\ UNCHANGED <<now, cancel, deviceCodeResponse, callbackCalls, issuanceTime,
                   deviceCodeExpirationTime, pollingIntervalMilli, requestBody>>
    /\ UNCHANGED sampleVars

\* What the interval callback does once its POST has settled with r.
PollOutcome(r) ==
    IF r.kind = "throw" THEN "reject"
    ELSE IF IsAuthorizationPending(r.body) THEN "continue"
    ELSE "resolve"

\* Mutant: the callback looks at request.cancel again after its await and
\* drops the reply of a cancelled flow.
PollReturnChecksCancel(r) ==
    /\ inflight > 0
    /\ inflight' = inflight - 1
    /\ LET outcome == IF cancel THEN "cancel" ELSE PollOutcome(r) IN
         /\ lastEvent' = ResponseName(r)
         /\ CASE outcome = "cancel" ->
                   /\ intervalActive' = FALSE
                   /\ promise' = Settle(promise, Rejected("DeviceCodeCancelledError"))
              [] outcome = "reject" ->
                   /\ intervalActive' = FALSE
                   /\ promise' = Settle(promise, Rejected("NetworkError"))
              [] outcome = "continue" ->
                   UNCHANGED <<intervalActive, promise>>
              [] outcome = "resolve" ->
                   /\ intervalActive' = FALSE
                   /\ promise' = Settle(promise, Resolved(r.body))
    /\ result' = AcquireTokenResult(promise')
    /\ pc' = IF promise'.state = "pending" THEN pc ELSE "done"
    /\ UNCHANGED <<now, cancel, deviceCodeResponse, callbackCalls, issuanceTime,
                   deviceCodeExpirationTime, pollingIntervalMilli, timerStart,
                   ticks, posts, requestBody, postedBody>>
    /\ UNCHANGED sampleVars

\* An outstanding POST settles with r and the callback resumes after its
\* await: pending is logged, anything else clears the timer and settles the
\* promise.
PollReturn(r) ==
    /\ inflight > 0
    /\ inflight' = inflight - 1
    /\ LET outcome == PollOutcome(r) IN
         /\ lastEvent' = ResponseName(r)
         /\ CASE outcome = "reject" ->
                   /\ intervalActive' = FALSE
                   /\ promise' = Settle(promise, Rejected("NetworkError"))
              [] outcome = "continue" ->
                   UNCHANGED <<intervalActive, promise>>
              [] outcome = "resolve" ->
                   /\ intervalActive' = FALSE
                   /\ promise' = Settle(promise, Resolved(r.body))
    /\ result' = AcquireTokenResult(promise')
    /\ pc' = IF promise'.state = "pending" THEN pc ELSE "done"
    /\ UNCHANGED <<now, cancel, deviceCodeResponse, callbackCalls, issuanceTime,
                   deviceCodeExpirationTime, pollingIntervalMilli, timerStart,
                   ticks, posts, requestBody, postedBody>>
    /\ UNCHANGED sampleVars

Next ==
    \/ ClockTick
    \/ SetCancel
    \/ \E ok \in BOOLEAN : CreateAuthority(ok)
    \/ \E r \in DeviceCodeReplies : GetDeviceCode(r)
    \/ \E throws \in BOOLEAN : DeviceCodeCallback(throws)
    \/ AcquireTokenWithDeviceCode
    \/ Tick
    \/ \E r \in PollResponses : PollReturn(r)

Spec == Init /\ [][Next]_vars

\* The interval callback is ready to run: the timer is armed and due.
TickReady ==
    /\ intervalActive
    /\ TimerDue(now, timerStart, pollingIntervalMilli)
    /\ TickBranch(cancel, now, deviceCodeExpirationTime) = "post" => posts < MaxPolls

\* The clock of a runtime that runs a due timer callback before the next
\* second has passed.
PunctualClockTick == ~TickReady /\ ClockTick

FairNext ==
    \/ PunctualClockTick
    \/ SetCancel
    \/ \E ok \in BOOLEAN : CreateAuthority(ok)
    \/ \E r \in DeviceCodeReplies : GetDeviceCode(r)
    \/ \E throws \in BOOLEAN : DeviceCodeCallback(throws)
    \/ AcquireTokenWithDeviceCode
    \/ Tick
    \/ \E r \in PollResponses : PollReturn(r)

\* The scheduling the runtime provides: the clock keeps advancing and an armed
\* timer whose delay has elapsed fires. Nothing is assumed of the servers.
FairSpec ==
    Init /\ [][FairNext]_vars /\ WF_vars(PunctualClockTick) /\ WF_vars(Tick)

\* ------------------------------------------------- the sample application
\* The values of process.platform: the three createPersistence names, and any other.
Platforms == {"win32", "darwin", "linux", "other"}

\* Mutant: the Linux branch is missing, so Linux gets the plain-text file.
BackendForWithoutLinux(p) ==
    CASE p = "win32" -> "FilePersistenceWithDataProtection"
      [] p = "darwin" -> "KeychainPersistence"
      [] OTHER -> "FilePersistence"

\* The persistence class createPersistence calls create(...) on.
BackendFor(p) ==
    CASE p = "win32" -> "FilePersistenceWithDataProtection"
      [] p = "darwin" -> "KeychainPersistence"
      [] p = "linux" -> "LibSecretPersistence"
      [] OTHER -> "FilePersistence"

\* createPersistence() on platform p settles: it returns the promise of the one
\* create(...) it calls, so a failed create rejects it, and the .then callback
\* that builds the application runs only when it resolved.
CreatePersistence(p, ok) ==
    /\ startup = "createPersistence"
    /\ platform' = p
    /\ IF ok
       THEN /\ created' = "ok"
            /\ persistence' = BackendFor(p)
            /\ startup' = "readFromPersistence"
       ELSE /\ created' = "failed"
            /\ persistence' = "none"
            /\ startup' = "done"
    /\ UNCHANGED <<cacheLoad, listening, reqs, flowVars>>

\* msalCacheManager.readFromPersistence() settles: app.listen is called in its
\* .then callback; a rejection has no handler.
ReadFromPersistence(ok) ==
    /\ startup = "readFromPersistence"
    /\ cacheLoad' = IF ok THEN "ok" ELSE "failed"
    /\ listening' = ok
    /\ startup' = "done"
    /\ UNCHANGED <<platform, created, persistence, reqs, flowVars>>

\* A GET for `route` arrives and its handler runs up to the promise it waits on.
Request(r, route) ==
    /\ listening
    /\ reqs[r].pc = "idle"
    /\ reqs' = [reqs EXCEPT ![r].route = route,
                            ![r].pc = IF route = "/" THEN "getAuthCodeUrl"
                                      ELSE "acquireTokenByCode"]
    /\ UNCHANGED <<platform, created, persistence, cacheLoad, startup, listening,
                   flowVars>>

\* pca.getAuthCodeUrl settles in the '/' handler: a redirect, or the error logged.
GetAuthCodeUrl(r, ok) ==
    /\ reqs[r].pc = "getAuthCodeUrl"
    /\ reqs' = [reqs EXCEPT
          ![r].pc = "done",
          ![r].attempts = IF ok THEN Append(@, 302) ELSE @,
          ![r].logs = IF ok THEN @ ELSE Append(@, "url-error")]
    /\ UNCHANGED <<platform, created, persistence, cacheLoad, startup, listening,
                   flowVars>>

\* pca.acquireTokenByCode settles in the '/redirect' handler: on success the
\* response is logged, 200 is sent and writeToPersistence() is called and
\* returned; on failure the catch logs the error and sends 500.
AcquireTokenByCode(r, ok) ==
    /\ reqs[r].pc = "acquireTokenByCode"
    /\ reqs' = [reqs EXCEPT
          ![r].pc = IF ok THEN "writeToPersistence" ELSE "done",
          ![r].acquired = IF ok THEN "ok" ELSE "failed",
          ![r].logs = Append(@, IF ok THEN "response" ELSE "acquire-error"),
          ![r].attempts = Append(@, IF ok THEN 200 ELSE 500),
          ![r].save = IF ok THEN "started" ELSE @]
    /\ UNCHANGED <<platform, created, persistence, cacheLoad, startup, listening,
                   flowVars>>

\* Mutant: writeToPersistence() is called but its promise is not returned from
\* the .then callback, so its rejection reaches no handler.
WriteToPersistenceNotReturned(r, ok) ==
    /\ reqs[r].pc = "writeToPersistence"
    /\ reqs' = [reqs EXCEPT
          ![r].pc = "done",
          ![r].save = IF ok THEN "ok" ELSE "failed"]
    /\ UNCHANGED <<platform, created, persistence, cacheLoad, startup, listening,
                   flowVars>>

\* The returned writeToPersistence() promise settles: a rejection reaches the
\* handler's catch, which logs the error and calls res.status(500).send(error)
\* on the response that already carried the 200.
WriteToPersistence(r, ok) ==
    /\ reqs[r].pc = "writeToPersistence"
    /\ reqs' = [reqs EXCEPT
          ![r].pc = "done",
          ![r].save = IF ok THEN "ok" ELSE "failed",
          ![r].logs = IF ok THEN @ ELSE Append(@, "save-error"),
          ![r].attempts = IF ok THEN @ ELSE Append(@, 500)]
    /\ UNCHANGED <<platform, created, persistence, cacheLoad, startup, listening,
                   flowVars>>

SampleNext ==
    \/ \E p \in Platforms, ok \in BOOLEAN : CreatePersistence(p, ok)
    \/ \E ok \in BOOLEAN : ReadFromPersistence(ok)
    \/ \E r \in 1..MaxRequests, route \in {"/", "/redirect"} : Request(r, route)
    \/ \E r \in 1..MaxRequests, ok \in BOOLEAN : GetAuthCodeUrl(r, ok)
    \/ \E r \in 1..MaxRequests, ok \in BOOLEAN : AcquireTokenByCode(r, ok)
    \/ \E r \in 1..MaxRequests, ok \in BOOLEAN : WriteToPersistence(r, ok)

SampleSpec == Init /\ [][SampleNext]_vars

\* ------------------------------------------------------------- properties
CancelledError == Threw("DeviceCodeCancelledError")
ExpiredError == Threw("DeviceCodeExpiredError")

\* The step is one firing of the interval callback.
TickStep == ticks' = ticks + 1
\* The step is the settling of one outstanding POST.
PollReturnStep == inflight' = inflight - 1
\* The clock has passed issuanceTime + expiresIn.
PastExpiry ==
    /\ deviceCodeResponse.expiresIn.t = "number"
    /\ now > issuanceTime + deviceCodeResponse.expiresIn.v
\* Every field of the DeviceCodeResponse is present.
CompleteDeviceCodeResponse ==
    /\ deviceCodeResponse.userCode # Undefined
    /\ deviceCodeResponse.deviceCode # Undefined
    /\ deviceCodeResponse.verificationUri # Undefined
    /\ deviceCodeResponse.message # Undefined
    /\ deviceCodeResponse.expiresIn.t = "number"
    /\ deviceCodeResponse.interval.t = "number"

\* C1: the callback is invoked exactly once per flow whose device-code fetch
\* returned a response: not before the response is there, once before the
\* timer is armed and before any POST, and never again during polling; a
\* flow that ended without invoking it failed before the callback, with no POST.
C1_CallbackOnceBeforePolling ==
    /\ callbackCalls <= 1
    /\ pc \in {"createAuthority", "getDeviceCode", "callback"} =>
          callbackCalls = 0 /\ posts = 0 /\ ticks = 0 /\ ~intervalActive
    /\ (pc \in {"acquireTokenWithDeviceCode", "polling"} \/ intervalActive
            \/ ticks > 0 \/ posts > 0) => callbackCalls = 1
    /\ (pc = "done" /\ callbackCalls = 0) =>
          /\ lastEvent \in {"authority-throw", "deviceCode-throw"}
          /\ posts = 0
C1_Witness ==
    callbackCalls = 1 /\ posts >= 2 /\ pc = "polling" /\ lastEvent = "poll-pending"

\* C2: at most one token-endpoint POST is outstanding at any time (stated for
\* the flows whose device-code reply was well-formed).
C2_OnePollInFlight == CompleteDeviceCodeResponse => inflight <= 1

\* C3: a tick that finds request.cancel set issues no POST, stops the timer
\* and ends the flow with DeviceCodeCancelledError; no POST precedes the first
\* tick, so a flow cancelled before its first tick never issues one.
C3_CancelBeforePost ==
    /\ [](ticks = 0 => posts = 0)
    /\ [][(TickStep /\ cancel) =>
            /\ posts' = posts
            /\ inflight' = inflight
            /\ ~intervalActive'
            /\ promise' = Rejected("DeviceCodeCancelledError")
            /\ result' = CancelledError]_vars
C3_Witness ==
    /\ ticks = 1 /\ posts = 0 /\ lastEvent = "cancelled"
    /\ result = CancelledError /\ ~intervalActive /\ pc = "done"

\* C4: a tick with cancel unset at which the clock has passed issuanceTime +
\* expiresIn issues no POST, stops the timer and ends the flow with
\* DeviceCodeExpiredError; and no POST is ever issued past that time.
C4_ExpiredBeforePost ==
    /\ [][(TickStep /\ ~cancel /\ PastExpiry) =>
            /\ posts' = posts
            /\ inflight' = inflight
            /\ ~intervalActive'
            /\ promise' = Rejected("DeviceCodeExpiredError")
            /\ result' = ExpiredError]_vars
    /\ [][posts' # posts => ~PastExpiry]_vars
C4_Witness ==
    /\ lastEvent = "expired" /\ result = ExpiredError /\ posts >= 1
    /\ PastExpiry /\ ~cancel /\ ~intervalActive

\* C5: an authorization_pending reply changes neither the promise, the timer
\* nor what the caller has got, and never shows up in the result; the flow
\* leaves Polling only at a tick that finds it cancelled or expired or when a
\* POST settles with something other than authorization_pending.
C5_PendingAbsorbed ==
    /\ [](result.json.of.error # AUTHORIZATION_PENDING)
    /\ [][(PollReturnStep /\ lastEvent' = "poll-pending") =>
            UNCHANGED <<promise, result, intervalActive, pc>>]_vars
    /\ [][(promise.state = "pending" /\ promise'.state # "pending") =>
            lastEvent' \in {"cancelled", "expired", "poll-token", "poll-error",
                            "poll-nobody", "poll-throw"}]_vars
C5_Witness ==
    /\ lastEvent = "poll-pending" /\ posts >= 3 /\ inflight = 0
    /\ promise.state = "pending" /\ pc = "polling" /\ intervalActive

\* C6: acquireToken never returns a body that carries an error code: a poll
\* reply with an error other than authorization_pending makes it fail (stated
\* for the flows whose device-code reply was well-formed).
C6_ErrorBodyFails ==
    CompleteDeviceCodeResponse =>
        /\ result.state = "returned" => result.json.of.error = Undefined
        /\ (lastEvent = "poll-error" /\ posts = 1) => result.state = "threw"

\* C7: with interval = 5 s and expiresIn = 16 s at most 3 POSTs are issued,
\* whatever the server answers.
C7_AtMostThreePolls ==
    (deviceCodeResponse.interval = Num(5) /\ deviceCodeResponse.expiresIn = Num(16))
        => posts <= 3
C7_Witness ==
    /\ deviceCodeResponse.interval = Num(5)
    /\ deviceCodeResponse.expiresIn = Num(16)
    /\ posts = 3 /\ inflight = 0 /\ ~cancel
    /\ lastEvent = "expired" /\ result = ExpiredError
    /\ now >= issuanceTime + 20

\* C8: right after a POST's transport call failed, the flow has failed with
\* that error and the timer is stopped (stated for the flows whose
\* device-code reply was well-formed).
C8_TransportFailureFails ==
    (lastEvent = "poll-throw" /\ CompleteDeviceCodeResponse) =>
        (result = Threw("NetworkError") /\ ~intervalActive)

\* C9: when the callback throws, acquireToken fails with that exception, the
\* timer is never armed and no tick or POST ever happens.
C9_CallbackThrowAborts ==
    lastEvent = "callback-throw" =>
        /\ result = Threw("CallbackError")
        /\ pc = "done"
        /\ ~intervalActive
        /\ ticks = 0 /\ posts = 0 /\ inflight = 0
        /\ promise = PendingPromise
C9_Witness ==
    lastEvent = "callback-throw" /\ callbackCalls = 1 /\ now = MaxTime

\* C10: the callback is invoked, and polling entered, only with a
\* DeviceCodeResponse that has all six fields.
C10_MalformedReplyFails ==
    (callbackCalls > 0 \/ pc = "polling" \/ intervalActive)
        => CompleteDeviceCodeResponse

\* A device-code response with a finite expiresIn and a positive interval.
FiniteTimings ==
    /\ deviceCodeResponse.expiresIn.t = "number"
    /\ deviceCodeResponse.interval.t = "number"
    /\ deviceCodeResponse.interval.v >= 1

\* C11: with the clock advancing and due ticks firing, a flow that entered
\* Polling with a finite expiresIn and a positive interval reaches a terminal
\* state, whatever the server answers and even if a POST never settles; and
\* the POSTs issued, one per interval, all fit before the expiry time.
C11_ExpiryBoundsFlow ==
    /\ (pc = "polling" /\ FiniteTimings) ~> (pc = "done")
    /\ [](FiniteTimings =>
            posts * deviceCodeResponse.interval.v <= deviceCodeResponse.expiresIn.v)
C11_Witness ==
    /\ FiniteTimings /\ pc = "done" /\ result = ExpiredError /\ ~cancel
    /\ inflight >= 2
    /\ posts * deviceCodeResponse.interval.v = deviceCodeResponse.expiresIn.v

\* C12: the timer is cleared in the step that settles the promise, on every
\* exit path; once the flow is terminal no tick is evaluated and no POST issued.
C12_TimerStoppedOnExit ==
    /\ [](promise.state # "pending" => (~intervalActive /\ pc = "done"))
    /\ [][(promise.state = "pending" /\ promise'.state # "pending") =>
            ~intervalActive']_vars
    /\ [][promise.state # "pending" => (ticks' = ticks /\ posts' = posts)]_vars
C12_Witness ==
    /\ result = ExpiredError /\ ~intervalActive /\ inflight > 0
    /\ TimerDue(now, timerStart, pollingIntervalMilli) /\ now = MaxTime

\* The five states of a flow that has begun polling, read off what the caller
\* has got.
FlowPolling == pc = "polling" /\ result.state = "pending"
FlowSucceeded == result.state = "returned"
FlowExpired == result = ExpiredError
FlowCancelled == result = CancelledError
FlowFailed == result = Threw("NetworkError")
BegunPolling ==
    lastEvent \in {"polling", "post", "cancelled", "expired", "poll-pending",
                   "poll-token", "poll-error", "poll-nobody", "poll-throw"}

\* C13: a flow that has begun polling is in exactly one of Polling, Succeeded,
\* Expired, Cancelled, Failed; what the caller has got, once delivered, is
\* never changed by a later reply, tick, cancel or clock step.
C13_ExactlyOneOutcome ==
    /\ [](BegunPolling =>
            Cardinality({i \in 1..5 :
                <<FlowPolling, FlowSucceeded, FlowExpired, FlowCancelled,
                  FlowFailed>>[i]}) = 1)
    /\ [][result.state # "pending" => (result' = result /\ promise' = promise)]_vars
C13_Witness ==
    /\ result = ExpiredError /\ lastEvent = "poll-token" /\ inflight = 0 /\ cancel

\* C17: setting request.cancel aborts nothing; a token reply that settles a
\* still-pending flow makes it Succeeded whether or not cancel is set; and
\* DeviceCodeCancelledError only comes from a tick that finds cancel set.
C17_CooperativeCancel ==
    /\ [][(~cancel /\ cancel') =>
            UNCHANGED <<inflight, promise, result, intervalActive, pc>>]_vars
    /\ [][(PollReturnStep /\ lastEvent' = "poll-token" /\ promise.state = "pending")
            => (result'.state = "returned" /\ result'.json.of = TokenBody)]_vars
    /\ [][(result # CancelledError /\ result' = CancelledError) =>
            (TickStep /\ cancel)]_vars
C17_Witness ==
    /\ cancel /\ lastEvent = "poll-token" /\ ticks = 1 /\ posts = 1
    /\ result.state = "returned" /\ result.json.of = TokenBody

\* C19: with a positive interval, no tick (so no cancel check, expiry check or
\* POST) is evaluated before interval * 1000 ms have passed since
\* acquireTokenWithDeviceCode ran, and no polling outcome is reported earlier.
C19_FirstTickAfterInterval ==
    /\ [][(TickStep /\ FiniteTimings) =>
            (now - issuanceTime) * MilliPerSecond
                >= deviceCodeResponse.interval.v * MilliPerSecond]_vars
    /\ []((FiniteTimings /\ (ticks > 0 \/ posts > 0 \/ promise.state # "pending")) =>
            now >= issuanceTime + deviceCodeResponse.interval.v)
C19_Witness ==
    /\ deviceCodeResponse.interval = Num(5) /\ ticks = 1 /\ posts = 0
    /\ result = CancelledError /\ now = issuanceTime + 5

\* C18: a tick and the continuation after a POST change neither request.cancel
\* nor the device-code response, the request body, the expiration time or the
\* interval; every POST carries the one body built before the first tick from
\* the request's scopes, the client id, the grant type and the device code.
C18_PollingReadsOnly ==
    /\ [][(TickStep \/ PollReturnStep) =>
            UNCHANGED <<cancel, deviceCodeResponse, requestBody,
                        deviceCodeExpirationTime, pollingIntervalMilli>>]_vars
    /\ [][posts' # posts =>
            /\ postedBody' = requestBody
            /\ posts > 0 => postedBody' = postedBody]_vars
    /\ [](posts > 0 =>
            postedBody = [scope |-> RequestScopes, client_id |-> ClientId,
                          grant_type |-> DEVICE_CODE_GRANT,
                          device_code |-> deviceCodeResponse.deviceCode])
C18_Witness ==
    /\ posts >= 3 /\ cancel /\ lastEvent = "cancelled"
    /\ postedBody = requestBody /\ requestBody.device_code = "device-code"

\* The entries of a sequence.
Range(q) == {q[i] : i \in 1..Len(q)}

\* C14: in the /redirect handler the cache save is started only after the
\* token acquisition succeeded and the 200 was sent, and a failed save has
\* reached the handler's catch, which logged it.
C14_SaveAfterResponseAndObserved ==
    \A r \in 1..MaxRequests :
        /\ reqs[r].save # "none" =>
              /\ reqs[r].route = "/redirect"
              /\ reqs[r].acquired = "ok"
              /\ Len(reqs[r].attempts) >= 1
              /\ reqs[r].attempts[1] = 200
        /\ reqs[r].save = "failed" => "save-error" \in Range(reqs[r].logs)
C14_Witness ==
    \E r \in 1..MaxRequests :
        /\ reqs[r].save = "failed"
        /\ reqs[r].logs = <<"response", "save-error">>

\* C15: when the cache load at startup failed, the application is serving
\* once its start is over.
C15_LoadFailureStillServes ==
    (startup = "done" /\ cacheLoad = "failed") => listening

\* C16: when the create of the platform's secure backend failed,
\* createPersistence still yields the plain-text FilePersistence.
C16_FallbackOnCreateFailure ==
    (startup # "createPersistence" /\ created = "failed"
        /\ platform \in {"win32", "darwin", "linux"})
            => persistence = "FilePersistence"

\* C16 as amended: the backend is chosen by process.platform alone, the
\* plain-text FilePersistence being used on the platforms other than win32,
\* darwin and linux; when the chosen backend's create fails, createPersistence
\* fails, there is no persistence and the application never serves.
C16_FallbackByPlatformOnly ==
    /\ created = "ok" =>
          /\ platform = "win32" => persistence = "FilePersistenceWithDataProtection"
          /\ platform = "darwin" => persistence = "KeychainPersistence"
          /\ platform = "linux" => persistence = "LibSecretPersistence"
          /\ platform = "other" => persistence = "FilePersistence"
    /\ created = "failed" =>
          /\ persistence = "none"
          /\ ~listening
          /\ \A r \in 1..MaxRequests : reqs[r] = IdleRequest
C16_Witness ==
    /\ created = "failed" /\ platform = "linux" /\ startup = "done"
    /\ persistence = "none" /\ ~listening

\* C20: a request's response object is sent to at most once.
C20_OneResponsePerRequest ==
    \A r \in 1..MaxRequests : Len(reqs[r].attempts) <= 1

====
